---- MODULE Spec2Model ----
(***************************************************************************)
(* Verification model of the tinman-chat streaming core: the Resumable     *)
(* Stream Store, the Stream Coordinator with its subscribers, the document *)
(* tools (createDocument / updateDocument) with the code and sheet         *)
(* artifact handlers, and the schema adapter AISDKZodV4Adapter.            *)
(*                                                                         *)
(* The tools and the handlers are translated from the source.  The store,  *)
(* the coordinator and createDocumentHandler are not part of the shown     *)
(* source; they are modelled from sections 4.2, 4.4, 4.5 and 5 of the      *)
(* specification.                                                          *)
(***************************************************************************)
EXTENDS Integers, Sequences, FiniteSets, TLC

(***************************************************************************)
(* Bounds of the model.                                                    *)
(***************************************************************************)
\* highest sequence number a caller offers to the store in SpecStore
MaxSeq == 2

\* number of Delta Parser outputs one session emits before its provider ends
MaxEvents == 3

\* increments one handler run takes from its generation stream
MaxDeltas == 3

Sessions == {"S1", "S2"}

VARIABLES
  \* ---- Resumable Stream Store (spec 4.5)
  log,        \* session id -> sequence of stored events
  terminal,   \* session id -> "active" | "completed" | "aborted"
  reply,      \* what the last store call returned
  \* ---- Stream Coordinator of session Sid (spec 4.4)
  cstate,     \* "initializing" | "streaming" | "finalizing" | "completed" | "aborted"
  outcome,    \* how the stream ended: "none" | "finish" | "error" | "cancel" | "fenced"
  nextSeq,    \* the next sequence number to assign
  inflight,   \* the event in the pipeline (NoEvent: none)
  stage,      \* where it is: "idle" | "assigned" | "appended"
  emitted,    \* every event that was assigned a sequence number, in order
  subs,       \* subscriber -> [mode, received, everDetached]
  \* ---- document tools and artifact handlers
  handlers,     \* documentHandlersByArtifactKind: the kinds that have a handler
  documents,    \* document id -> persisted row (NoDoc: none)
  pc,           \* position of the running tool call
  call,         \* its validated arguments
  draftContent, \* the handler's draftContent
  stream,       \* the handler's fullStream: "none" | "open" | "errored" | "ended"
  taken,        \* the parts the handler has taken from fullStream, in order
  sink,         \* every dataStream.write so far, in order
  result,       \* what execute returned or threw
  validated,    \* the payloads the handler validated in this run, in order
  savedIn,      \* document id -> circumstances of its last saveDocument
  \* ---- Schema Validation Adapter (AISDKZodV4Adapter)
  compatSchema, \* what createStreamingToolSchema returned (NoCompat: not called yet)
  warned,       \* number of console.warn diagnostics of the construction
  testData,     \* the payload of the last validation
  verdict,      \* what the last adapter operation decided: [op, accepted, logged]
  \* ---- coordinator instances of session Sid (spec 5, write fencing)
  inst,         \* instance -> [nextSeq, inflight, stage, stopped, broadcast]
  writers,      \* the instance that wrote each entry of log[Sid], in order
  \* ---- requestSuggestions
  suggestions,     \* the tool's local array of suggestions
  suggestionSaves, \* every saveSuggestions call: [count, stream]
  \* ---- useResizable
  props,        \* the hook's options: [initialWidth, minWidth, maxWidth]
  width,        \* the width state
  isResizing,   \* the isResizing state
  sidebarRef,   \* whether sidebarRef.current holds an element
  listening,    \* whether the effect's document listeners are attached
  lastEvent     \* the last mouse event: "none" | "down" | "move" | "up"

storeVars == <<log, terminal, reply>>
coordVars == <<cstate, outcome, nextSeq, inflight, stage, emitted>>
toolVars == <<handlers, documents, pc, call, draftContent, stream, taken, sink,
              result, validated, savedIn>>
adapterVars == <<compatSchema, warned, testData, verdict>>
fenceVars == <<inst, writers>>
suggestVars == <<suggestions, suggestionSaves>>
resizeVars == <<props, width, isResizing, sidebarRef, listening, lastEvent>>
otherVars == <<fenceVars, suggestVars, resizeVars>>
vars == <<log, terminal, reply, cstate, outcome, nextSeq, inflight, stage, emitted, subs,
          handlers, documents, pc, call, draftContent, stream, taken, sink,
          result, validated, savedIn, compatSchema, warned, testData, verdict,
          inst, writers, suggestions, suggestionSaves, props, width, isResizing,
          sidebarRef, listening, lastEvent>>

(***************************************************************************)
(* Delta Events (spec 3).  The transient flag of the tool events is the    *)
(* one the source gives them: every dataStream.write of the tools and the  *)
(* handlers passes transient: true.                                        *)
(***************************************************************************)
TransientKinds == {"data-kind", "data-id", "data-title", "data-clear",
                   "data-codeDelta", "data-sheetDelta", "data-finish"}

StoredKinds == {"text", "finish", "error"}

IsTransient(kind) == kind \in TransientKinds

Event(seq, kind) == [seq |-> seq, kind |-> kind, transient |-> IsTransient(kind)]

NoEvent == [seq |-> 0, kind |-> "none", transient |-> FALSE]

(***************************************************************************)
(* Resumable Stream Store (spec 4.5).                                      *)
(***************************************************************************)
LastSeq(l) == IF l = <<>> THEN 0 ELSE l[Len(l)].seq

Contiguous(l, e) == e.seq = LastSeq(l) + 1

NoReply == [op |-> "none", session |-> "S1", status |-> "none", event |-> NoEvent]

\* a mutant of append: any sequence number above the last stored one is taken
appendGap(s, e) ==
  /\ log' = IF e.seq > LastSeq(log[s]) THEN [log EXCEPT ![s] = Append(@, e)] ELSE log
  /\ reply' = [op |-> "append", session |-> s, event |-> e,
               status |-> IF e.seq > LastSeq(log[s]) THEN "ok" ELSE "rejected"]

\* a mutant of append: an event out of sequence is dropped and "ok" returned
appendSilentDrop(s, e) ==
  /\ log' = IF Contiguous(log[s], e) THEN [log EXCEPT ![s] = Append(@, e)] ELSE log
  /\ reply' = [op |-> "append", session |-> s, event |-> e,
               status |-> "ok"]

\* append(sessionId, event): the event is stored when its sequence number is
\* exactly one greater than the last stored one, and rejected otherwise.
append(s, e) ==
  /\ log' = IF Contiguous(log[s], e) THEN [log EXCEPT ![s] = Append(@, e)] ELSE log
  /\ reply' = [op |-> "append", session |-> s, event |-> e,
               status |-> IF Contiguous(log[s], e) THEN "ok" ELSE "rejected"]

SeqAfter(l, after) == SelectSeq(l, LAMBDA e : e.seq > after)

\* readFrom(sessionId, afterSequence): the stored events above afterSequence, in order
readFrom(s, after) == SeqAfter(log[s], after)

\* isTerminal(sessionId): whether the session has a terminal record
isTerminal(s) == terminal[s] # "active"

\* the terminal record of a session is written once, by the coordinator
putTerminal(s, t) == terminal' = [terminal EXCEPT ![s] = t]

(***************************************************************************)
(* JavaScript values as the tools and handlers see them: a string is the   *)
(* sequence of its characters.                                             *)
(***************************************************************************)
Str(s) == [t |-> "string", v |-> s]

Undefined == [t |-> "undefined", v |-> <<>>]

Null == [t |-> "null", v |-> <<>>]

Num(d) == [t |-> "number", v |-> <<d>>]

\* JavaScript truthiness, as `if (code)` and `if (csv)` test it
Truthy(x) ==
  \/ x.t = "string" /\ x.v # <<>>
  \/ x.t = "number" /\ x.v # <<"0">>

\* the contents a generation stream yields for the field of its schema: strings
\* (each increment of streamObject carries the text so far), and what a partial
\* object may hold instead of a string
FieldValues == {Str(<<>>), Str(<<"a">>), Str(<<"a", "b">>), Undefined, Num("7")}

\* artifactKinds of @/lib/artifacts/server (spec 3: a fixed closed set)
artifactKinds == {"text", "code", "image", "sheet"}

\* z.string().min(n)
StringMin(x, n) == x.t = "string" /\ Len(x.v) >= n

\* z.enum(values)
EnumOf(x, values) == x.t = "string" /\ Len(x.v) = 1 /\ x.v[1] \in values

\* a mutant of Accepts: the length refinement .min(1) is lost
AcceptsAnyString(schema, data) ==
  CASE schema = "createDocumentSchemaV4" ->
         StringMin(data.title, 0) /\ EnumOf(data.kind, artifactKinds)
    [] schema = "updateDocumentSchemaV4" ->
         StringMin(data.id, 0) /\ StringMin(data.description, 0)
    [] schema = "codeStreamingSchemaV4" -> StringMin(data.code, 0)
    [] schema = "sheetStreamingSchemaV4" -> StringMin(data.csv, 0)
    [] schema = "requestSuggestionsSchemaV4" -> StringMin(data.documentId, 0)

\* whether v4Schema.parse(data) succeeds, for the schemas of the tools and
\* handlers (parse throws otherwise)
Accepts(schema, data) ==
  CASE schema = "createDocumentSchemaV4" ->
         StringMin(data.title, 1) /\ EnumOf(data.kind, artifactKinds)
    [] schema = "updateDocumentSchemaV4" ->
         StringMin(data.id, 1) /\ StringMin(data.description, 1)
    [] schema = "codeStreamingSchemaV4" -> StringMin(data.code, 1)
    [] schema = "sheetStreamingSchemaV4" -> StringMin(data.csv, 1)
    [] schema = "requestSuggestionsSchemaV4" -> StringMin(data.documentId, 1)

(***************************************************************************)
(* Schema Validation Adapter (AISDKZodV4Adapter).  A schema is the tree of  *)
(* its nodes as createEquivalentV3Schema reads them: _def.typeName, and per *)
(* kind _def.shape, _def.checks, _def.values, _def.type, _def.options,      *)
(* _def.innerType, _def.value.  A node is one record                        *)
(*   typeName  the kind of the node ("" when _def has no typeName)          *)
(*   checks    the refinements of a string, each [kind, value]              *)
(*   values    the members of an enum, or the value of a literal            *)
(*   keys      the keys of an object's shape, children their schemas        *)
(*   children  the element type, the options or the inner type otherwise   *)
(*   minLength the least length of an array (0: no constraint)              *)
(***************************************************************************)
\* longest string a payload holds
MaxLen == 2

ZNode(typeName, checks, values, keys, children, minLength) ==
  [typeName |-> typeName, checks |-> checks, values |-> values, keys |-> keys,
   children |-> children, minLength |-> minLength]

Check(kind, value) == [kind |-> kind, value |-> value]

ZString(checks) == ZNode("ZodString", checks, <<>>, <<>>, <<>>, 0)

ZEnum(values) == ZNode("ZodEnum", <<>>, values, <<>>, <<>>, 0)

ZLiteral(value) == ZNode("ZodLiteral", <<>>, <<value>>, <<>>, <<>>, 0)

ZArray(type, minLength) == ZNode("ZodArray", <<>>, <<>>, <<>>, <<type>>, minLength)

ZUnion(options) == ZNode("ZodUnion", <<>>, <<>>, <<>>, options, 0)

ZOptional(innerType) == ZNode("ZodOptional", <<>>, <<>>, <<>>, <<innerType>>, 0)

ZObject(keys, children) == ZNode("ZodObject", <<>>, <<>>, keys, children, 0)

\* zv3.any()
ZAny == ZNode("ZodAny", <<>>, <<>>, <<>>, <<>>, 0)

\* z.number(), a kind the translation has no case for (weatherSchemaV4)
ZNumber == ZNode("ZodNumber", <<>>, <<>>, <<>>, <<>>, 0)

\* z.string().default(value), a kind the translation has no case for: an
\* undefined input is accepted and parsed to the default
ZDefault(value) == ZNode("ZodDefault", <<>>, <<value>>, <<>>, <<ZString(<<>>)>>, 0)

\* a schema whose _def carries no typeName; it accepts numbers
ZNoTypeName == ZNode("", <<>>, <<>>, <<>>, <<>>, 0)

RecognizedKinds == {"ZodObject", "ZodString", "ZodEnum", "ZodArray", "ZodUnion",
                    "ZodOptional", "ZodLiteral"}

RecognizedChecks == {"email", "uuid", "url", "min", "max"}

(***************************************************************************)
(* Payloads: strings over a three-letter alphabet, a number, undefined,     *)
(* arrays and objects.                                                      *)
(***************************************************************************)
PValue(t, v, keys, items) == [t |-> t, v |-> v, keys |-> keys, items |-> items]

PString(s) == PValue("string", s, <<>>, <<>>)

PNumber == PValue("number", <<"7">>, <<>>, <<>>)

PUndefined == PValue("undefined", <<>>, <<>>, <<>>)

PArray(items) == PValue("array", <<>>, <<>>, items)

PObject(keys, items) == PValue("object", <<>>, keys, items)

\* the formats, on the model's alphabet: an address has an "@" after its first
\* letter, a URL starts with "h", a UUID is two or more "0"
StringFormat(kind, s) ==
  CASE kind = "email" -> \E i \in 2..Len(s) : s[i] = "@"
    [] kind = "url" -> s # <<>> /\ s[1] = "h"
    [] kind = "uuid" -> Len(s) >= 2 /\ \A i \in 1..Len(s) : s[i] = "0"
    [] OTHER -> TRUE

\* one refinement of a string; "regex" stands for the refinements other than
\* the five the translation knows (here: the string has no "@")
CheckHolds(check, s) ==
  CASE check.kind = "min" -> Len(s) >= check.value
    [] check.kind = "max" -> Len(s) <= check.value
    [] check.kind = "regex" -> \A i \in 1..Len(s) : s[i] # "@"
    [] OTHER -> StringFormat(check.kind, s)

\* data[key] of an object payload (undefined when the key is absent)
RECURSIVE Get(_, _, _)
Get(keys, items, key) ==
  IF keys = <<>> THEN PUndefined
  ELSE IF Head(keys) = key THEN Head(items)
  ELSE Get(Tail(keys), Tail(items), key)

\* whether schema.parse(data) succeeds, for a schema of either library
RECURSIVE Parses(_, _)
Parses(schema, data) ==
  CASE schema.typeName = "ZodString" ->
         /\ data.t = "string"
         /\ \A i \in 1..Len(schema.checks) : CheckHolds(schema.checks[i], data.v)
    [] schema.typeName = "ZodEnum" ->
         data.t = "string" /\ \E i \in 1..Len(schema.values) : schema.values[i] = data.v
    [] schema.typeName = "ZodLiteral" ->
         data.t = "string" /\ schema.values[1] = data.v
    [] schema.typeName = "ZodArray" ->
         /\ data.t = "array"
         /\ Len(data.items) >= schema.minLength
         /\ \A i \in 1..Len(data.items) : Parses(schema.children[1], data.items[i])
    [] schema.typeName = "ZodUnion" ->
         \E i \in 1..Len(schema.children) : Parses(schema.children[i], data)
    [] schema.typeName = "ZodOptional" ->
         data.t = "undefined" \/ Parses(schema.children[1], data)
    [] schema.typeName = "ZodObject" ->
         /\ data.t = "object"
         /\ \A i \in 1..Len(schema.keys) :
              Parses(schema.children[i], Get(data.keys, data.items, schema.keys[i]))
    [] schema.typeName = "ZodDefault" ->
         data.t = "undefined" \/ Parses(schema.children[1], data)
    [] schema.typeName = "ZodAny" -> TRUE
    [] OTHER -> data.t = "number"

\* the value schema.parse(data) returns when it succeeds: an object keeps the
\* keys of its shape that hold a value, in the order of the shape
RECURSIVE ParseOutput(_, _)
ParseOutput(schema, data) ==
  CASE schema.typeName = "ZodObject" ->
         LET present == SelectSeq([i \in 1..Len(schema.keys) |-> i],
                          LAMBDA i : Get(data.keys, data.items, schema.keys[i]) # PUndefined)
         IN  PObject([j \in 1..Len(present) |-> schema.keys[present[j]]],
                     [j \in 1..Len(present) |->
                        ParseOutput(schema.children[present[j]],
                                    Get(data.keys, data.items, schema.keys[present[j]]))])
    [] schema.typeName = "ZodArray" ->
         PArray([i \in 1..Len(data.items) |-> ParseOutput(schema.children[1], data.items[i])])
    [] schema.typeName = "ZodOptional" ->
         IF data.t = "undefined" THEN data ELSE ParseOutput(schema.children[1], data)
    [] schema.typeName = "ZodUnion" ->
         LET first == CHOOSE i \in 1..Len(schema.children) :
                        /\ Parses(schema.children[i], data)
                        /\ \A j \in 1..(i - 1) : ~Parses(schema.children[j], data)
         IN  ParseOutput(schema.children[first], data)
    [] schema.typeName = "ZodDefault" ->
         IF data.t = "undefined" THEN PString(schema.values[1])
                                 ELSE ParseOutput(schema.children[1], data)
    [] OTHER -> data

\* a mutant of TranslateChecks: the length refinements are not copied
TranslateFormatsOnly(checks) ==
  SelectSeq(checks, LAMBDA c : c.kind \in {"email", "uuid", "url"})

\* the checks the loop over _def.checks copies: those of the five kinds its
\* switch names, each with its value; a check of another kind is skipped
TranslateChecks(checks) == SelectSeq(checks, LAMBDA c : c.kind \in RecognizedChecks)

\* createEquivalentV3Schema(schema)
RECURSIVE createEquivalentV3Schema(_)
createEquivalentV3Schema(schema) ==
  CASE schema.typeName = "ZodObject" ->
         ZObject(schema.keys, [i \in 1..Len(schema.children) |->
                                 createEquivalentV3Schema(schema.children[i])])
    [] schema.typeName = "ZodString" -> ZString(TranslateChecks(schema.checks))
    [] schema.typeName = "ZodEnum" -> ZEnum(schema.values)
    [] schema.typeName = "ZodArray" ->
         ZArray(createEquivalentV3Schema(schema.children[1]), 0)
    [] schema.typeName = "ZodUnion" ->
         ZUnion([i \in 1..Len(schema.children) |->
                   createEquivalentV3Schema(schema.children[i])])
    [] schema.typeName = "ZodOptional" ->
         ZOptional(createEquivalentV3Schema(schema.children[1]))
    [] schema.typeName = "ZodLiteral" -> ZLiteral(schema.values[1])
    [] OTHER -> ZAny

RECURSIVE SumOver(_, _)
SumOver(f, n) == IF n = 0 THEN 0 ELSE f[n] + SumOver(f, n - 1)

\* the number of console.warn calls of createEquivalentV3Schema(schema): one
\* for each node that reaches the default case of the switch
RECURSIVE Warnings(_)
Warnings(schema) ==
  IF schema.typeName \in {"ZodObject", "ZodArray", "ZodUnion", "ZodOptional"}
    THEN SumOver([i \in 1..Len(schema.children) |-> Warnings(schema.children[i])],
                 Len(schema.children))
  ELSE IF schema.typeName \in RecognizedKinds \/ schema.typeName = ""
    THEN 0
  ELSE 1

NoCompat == [aiSdkSchema |-> ZAny, v4Schema |-> ZAny, built |-> FALSE]

\* createStreamingToolSchema(v4Schema)
createStreamingToolSchema(v4Schema) ==
  [aiSdkSchema |-> createEquivalentV3Schema(v4Schema), v4Schema |-> v4Schema,
   built |-> TRUE]

\* a mutant of validate: the translated schema decides
validateWithAiSdkSchema(compat, data) == Parses(compat.aiSdkSchema, data)

\* validate: (data) => v4Schema.parse(data); TRUE when parse returns, FALSE
\* when it throws
validate(compat, data) == Parses(compat.v4Schema, data)

\* a tool defined with inputSchema: aiSdkSchema whose execute starts with
\* validate(params): the caller of the tool checks the input against
\* inputSchema, and execute goes on when validate returns
toolAccepts(compat, params) ==
  /\ Parses(compat.aiSdkSchema, params)
  /\ validate(compat, ParseOutput(compat.aiSdkSchema, params))

\* a mutant of tryCompatibility: the two results are not compared
tryCompatibilityUncompared(v4Schema, data) ==
  LET compat == createStreamingToolSchema(v4Schema)
  IN  IF ~validate(compat, data) \/ ~Parses(compat.aiSdkSchema, data)
        THEN "throws"
        ELSE "true"

\* the try block of testStreamingCompatibility: "throws" when validate or
\* aiSdkSchema.parse throws, otherwise whether the two results have the same
\* JSON text
tryCompatibility(v4Schema, data) ==
  LET compat == createStreamingToolSchema(v4Schema)
  IN  IF ~validate(compat, data) \/ ~Parses(compat.aiSdkSchema, data)
        THEN "throws"
        ELSE IF ParseOutput(compat.v4Schema, data) = ParseOutput(compat.aiSdkSchema, data)
               THEN "true"
               ELSE "false"

\* testStreamingCompatibility(v4Schema, testData): the catch block turns an
\* exception of the try block into false
testStreamingCompatibility(v4Schema, data) == tryCompatibility(v4Schema, data) = "true"

\* whether the catch block ran: console.error("Schema compatibility test failed:", error)
compatibilityLogged(v4Schema, data) == tryCompatibility(v4Schema, data) = "throws"

NoVerdict == [op |-> "none", accepted |-> FALSE, logged |-> FALSE]

AdapterIdle ==
  /\ compatSchema = NoCompat
  /\ warned = 0
  /\ testData = PUndefined
  /\ verdict = NoVerdict

(***************************************************************************)
(* The rest states of the components that have a specification of their    *)
(* own: the coordinator instances of one session, requestSuggestions and   *)
(* useResizable.                                                           *)
(***************************************************************************)
Instances == {"A", "B"}

\* a coordinator instance that has produced nothing yet
NewInstance == [nextSeq |-> 1, inflight |-> NoEvent, stage |-> "idle",
                stopped |-> FALSE, broadcast |-> <<>>]

FenceIdle ==
  /\ inst = [i \in Instances |-> NewInstance]
  /\ writers = <<>>

SuggestIdle ==
  /\ suggestions = <<>>
  /\ suggestionSaves = <<>>

\* the defaults of MainSidebar and the options of AppSidebar
DefaultOptions == [initialWidth |-> 280, minWidth |-> 200, maxWidth |-> 500]

ResizeIdle ==
  /\ props = DefaultOptions
  /\ width = DefaultOptions.initialWidth
  /\ isResizing = FALSE
  /\ sidebarRef = FALSE
  /\ listening = FALSE
  /\ lastEvent = "none"

OthersIdle == FenceIdle /\ SuggestIdle /\ ResizeIdle

(***************************************************************************)
(* Documents and the state of a tool call.                                 *)
(***************************************************************************)
DocIds == {"d0", "d1"}

NoDoc == [kind |-> "none", title |-> Null, content |-> Null, versions |-> 0]

NoCall == [tool |-> "none", id |-> "none", kind |-> "none",
           title |-> Null, description |-> Null]

\* the circumstances of a saveDocument: the session's outcome and the state of
\* the generation stream when the row was written
NotSaved == [outcome |-> "unsaved", stream |-> "none"]

\* getDocumentById({ id })
getDocumentById(id) ==
  IF id \in DocIds /\ documents[id] # NoDoc THEN documents[id] ELSE NoDoc

ToolIdle ==
  /\ pc = "idle"
  /\ call = NoCall
  /\ draftContent = Str(<<>>)
  /\ stream = "none"
  /\ taken = <<>>
  /\ sink = <<>>
  /\ result = "none"
  /\ validated = <<>>
  /\ savedIn = [d \in DocIds |-> NotSaved]

\* no tool call is running, no document exists and no wrapper has been built
NoTools ==
  /\ ToolIdle
  /\ handlers = {"code", "sheet"}
  /\ documents = [d \in DocIds |-> NoDoc]
  /\ AdapterIdle
  /\ OthersIdle

\* a handler sub-task is in flight
HandlerRunning == pc \in {"streaming", "returned"}

(***************************************************************************)
(* Subscribers of the session's broadcast (spec 4.4, attach/detach).       *)
(***************************************************************************)
Subscribers == {"u0", "u1"}

NewSubscriber(mode) == [mode |-> mode, received |-> <<>>, everDetached |-> FALSE]

(***************************************************************************)
(* SpecStore: the store under arbitrary calls of arbitrary callers.        *)
(***************************************************************************)
StoreEmpty ==
  /\ log = [s \in Sessions |-> <<>>]
  /\ terminal = [s \in Sessions |-> "active"]
  /\ reply = NoReply

CoordIdle ==
  /\ cstate = "initializing"
  /\ outcome = "none"
  /\ nextSeq = 1
  /\ inflight = NoEvent
  /\ stage = "idle"
  /\ emitted = <<>>

StoreInit ==
  /\ StoreEmpty
  /\ CoordIdle
  /\ subs = [u \in Subscribers |-> NewSubscriber("detached")]
  /\ NoTools

StoreAppend ==
  \E s \in Sessions, q \in 0..(MaxSeq + 1), k \in {"text", "finish"} :
    /\ append(s, Event(q, k))
    /\ UNCHANGED <<terminal, coordVars, subs, toolVars, adapterVars, otherVars>>

\* a mutant of StoreReadFrom: the events read are removed from the log
StoreReadFromConsuming ==
  \E s \in Sessions, after \in 0..MaxSeq :
    /\ reply' = [op |-> "readFrom", session |-> s, event |-> NoEvent,
                 status |-> IF readFrom(s, after) = <<>> THEN "empty" ELSE "ok"]
    /\ log' = [log EXCEPT ![s] = SelectSeq(@, LAMBDA e : e.seq <= after)]
    /\ UNCHANGED <<terminal, coordVars, subs, toolVars, adapterVars, otherVars>>

\* readFrom called by any caller: the store is left as it was
StoreReadFrom ==
  \E s \in Sessions, after \in 0..MaxSeq :
    /\ reply' = [op |-> "readFrom", session |-> s, event |-> NoEvent,
                 status |-> IF readFrom(s, after) = <<>> THEN "empty" ELSE "ok"]
    /\ UNCHANGED <<log, terminal, coordVars, subs, toolVars, adapterVars, otherVars>>

StorePutTerminal ==
  \E s \in Sessions, t \in {"completed", "aborted"} :
    /\ ~isTerminal(s)
    /\ putTerminal(s, t)
    /\ reply' = [op |-> "putTerminal", session |-> s, event |-> NoEvent,
                 status |-> t]
    /\ UNCHANGED <<log, coordVars, subs, toolVars, adapterVars, otherVars>>

\* the retention window of a session passes: its entries expire (TTL policy),
\* with or without its terminal record
StoreExpire ==
  \E s \in Sessions, keepRecord \in BOOLEAN :
    /\ log[s] # <<>>
    /\ log' = [log EXCEPT ![s] = <<>>]
    /\ terminal' = IF keepRecord THEN terminal ELSE [terminal EXCEPT ![s] = "active"]
    /\ reply' = [op |-> "expire", session |-> s, event |-> NoEvent, status |-> "ok"]
    /\ UNCHANGED <<coordVars, subs, toolVars, adapterVars, otherVars>>

StoreNext == StoreAppend \/ StoreReadFrom \/ StorePutTerminal \/ StoreExpire

SpecStore == StoreInit /\ [][StoreNext]_vars

(***************************************************************************)
(* Stream Coordinator (spec 4.4), one instance owning session Sid.  Every   *)
(* store append and every transport write is a suspension point (spec 5),   *)
(* so assigning, appending and broadcasting one event are three steps.      *)
(***************************************************************************)
Sid == "S1"

\* what the Delta Parser hands to a streaming session: text increments, and the
\* content deltas of the artifact handlers (written with transient: true)
StreamKinds == {"text", "data-codeDelta"}

Active == cstate \in {"initializing", "streaming", "finalizing"}

TerminalEmitted == \E i \in 1..Len(emitted) : emitted[i].kind \in {"finish", "error"}

\* initializing: allocate the session, register with the store, open the provider call
CoordStart ==
  /\ cstate = "initializing"
  /\ cstate' = "streaming"
  /\ UNCHANGED <<storeVars, outcome, nextSeq, inflight, stage, emitted, subs, toolVars, adapterVars, otherVars>>

\* streaming (1): the next sequence number goes to the next Delta Parser output
AssignSeq(k) ==
  /\ stage = "idle"
  /\ inflight' = Event(nextSeq, k)
  /\ stage' = "assigned"
  /\ nextSeq' = nextSeq + 1
  /\ emitted' = Append(emitted, Event(nextSeq, k))

CoordAssign ==
  \E k \in StreamKinds :
    /\ cstate = "streaming"
    /\ nextSeq <= MaxEvents
    /\ AssignSeq(k)
    /\ UNCHANGED <<storeVars, cstate, outcome, subs, toolVars, adapterVars, otherVars>>

\* streaming (2): a non-transient event is appended to the store; a rejected
\* append is fatal to this coordinator instance (spec 7): it stops producing
\* and goes on to end the session
CoordAppend ==
  /\ stage = "assigned"
  /\ ~inflight.transient
  /\ append(Sid, inflight)
  /\ IF reply'.status = "ok"
       THEN /\ stage' = "appended"
            /\ UNCHANGED <<cstate, outcome, inflight>>
       ELSE /\ stage' = "idle"
            /\ inflight' = NoEvent
            /\ cstate' = "finalizing"
            /\ outcome' = "fenced"
  /\ UNCHANGED <<terminal, nextSeq, emitted, subs, toolVars, adapterVars, otherVars>>

Deliver(sub, e) == IF sub.mode = "live"
                     THEN [sub EXCEPT !.received = Append(@, e)]
                     ELSE sub

\* streaming (3): the event goes to every currently attached subscriber
CoordBroadcast ==
  /\ \/ stage = "appended"
     \/ stage = "assigned" /\ inflight.transient
  /\ subs' = [u \in Subscribers |-> Deliver(subs[u], inflight)]
  /\ stage' = "idle"
  /\ inflight' = NoEvent
  /\ UNCHANGED <<storeVars, cstate, outcome, nextSeq, emitted, toolVars, adapterVars, otherVars>>

\* the provider signals end-of-stream
CoordProviderEnd ==
  /\ cstate = "streaming"
  /\ stage = "idle"
  /\ cstate' = "finalizing"
  /\ outcome' = "finish"
  /\ UNCHANGED <<storeVars, nextSeq, inflight, stage, emitted, subs, toolVars, adapterVars, otherVars>>

\* a mutant of CoordAbort: the session is aborted without finalizing
CoordAbortDirect ==
  /\ cstate = "streaming"
  /\ stage = "idle"
  /\ cstate' = "aborted"
  /\ outcome' = "error"
  /\ UNCHANGED <<storeVars, nextSeq, inflight, stage, emitted, subs, toolVars, adapterVars, otherVars>>

\* a provider error, or the maximum session duration is exceeded
CoordAbort ==
  /\ cstate = "streaming"
  /\ stage = "idle"
  /\ cstate' = "finalizing"
  /\ outcome' = "error"
  /\ UNCHANGED <<storeVars, nextSeq, inflight, stage, emitted, subs, toolVars, adapterVars, otherVars>>

\* a client's "stop generating" request cancels the provider call; the
\* coordinator finalizes as after an end-of-stream, but marks the session aborted
CoordCancel ==
  /\ cstate = "streaming"
  /\ stage = "idle"
  /\ cstate' = "finalizing"
  /\ outcome' = "cancel"
  /\ UNCHANGED <<storeVars, nextSeq, inflight, stage, emitted, subs, toolVars, adapterVars, otherVars>>

\* a mutant of CanFinalize: finalization does not wait for the handlers
CanFinalizeAtOnce(o) == TRUE

\* finalizing goes on once every in-flight handler sub-task has returned; an
\* aborted session does not wait for them
CanFinalize(o) == o \in {"finish", "cancel"} => ~HandlerRunning

\* the terminal event of a session: "error" after an abort, "finish" otherwise
TerminalKind(o) == IF o = "error" THEN "error" ELSE "finish"

\* a mutant of TerminalState: a cancelled session is persisted as completed
TerminalStateCancelCompletes(o) == IF o = "error" THEN "aborted" ELSE "completed"

\* the state a session is persisted in: completed after a natural end of the
\* stream, aborted after an error, a timeout or a cancel
TerminalState(o) == IF o = "finish" THEN "completed" ELSE "aborted"

\* finalizing: the terminal "finish" or "error" event enters the same pipeline
CoordAssignTerminal ==
  /\ cstate = "finalizing"
  /\ ~TerminalEmitted
  /\ outcome # "fenced"
  /\ CanFinalize(outcome)
  /\ AssignSeq(TerminalKind(outcome))
  /\ UNCHANGED <<storeVars, cstate, outcome, subs, toolVars, adapterVars, otherVars>>

\* finalizing: the session is persisted as completed or aborted
CoordTerminate ==
  /\ cstate = "finalizing"
  /\ TerminalEmitted \/ outcome = "fenced"
  /\ stage = "idle"
  /\ CanFinalize(outcome)
  /\ cstate' = TerminalState(outcome)
  /\ putTerminal(Sid, cstate')
  /\ UNCHANGED <<log, reply, outcome, nextSeq, inflight, stage, emitted, subs, toolVars, adapterVars, otherVars>>

(***************************************************************************)
(* Subscriber attach and detach (spec 4.4; resumption entry point, spec 6). *)
(***************************************************************************)
\* attach, first half: everything the store has after the subscriber's
\* last-seen sequence number (none: 0) is replayed, in order
SubAttachReplay(u) ==
  /\ Active
  /\ subs[u].mode = "detached"
  /\ subs' = [subs EXCEPT ![u].received = @ \o readFrom(Sid, LastSeq(@)),
                          ![u].mode = "replayed"]
  /\ UNCHANGED <<storeVars, coordVars, toolVars, adapterVars, otherVars>>

\* attach, second half: the subscriber joins the broadcast set
SubSwitchLive(u) ==
  /\ subs[u].mode = "replayed"
  /\ subs' = [subs EXCEPT ![u].mode = "live"]
  /\ UNCHANGED <<storeVars, coordVars, toolVars, adapterVars, otherVars>>

\* a mutant of SubDetach: a detach stops the session
SubDetachStopping(u) ==
  /\ subs[u].mode \in {"replayed", "live"}
  /\ subs' = [subs EXCEPT ![u].mode = "detached", ![u].everDetached = TRUE]
  /\ cstate' = "aborted"
  /\ UNCHANGED <<storeVars, outcome, nextSeq, inflight, stage, emitted, toolVars, adapterVars, otherVars>>

\* detach: the subscriber leaves the broadcast set
SubDetach(u) ==
  /\ subs[u].mode \in {"replayed", "live"}
  /\ subs' = [subs EXCEPT ![u].mode = "detached", ![u].everDetached = TRUE]
  /\ UNCHANGED <<storeVars, coordVars, toolVars, adapterVars, otherVars>>

(***************************************************************************)
(* SpecSession: one session, its coordinator the only writer of its log,   *)
(* subscriber u0 attached from the very start, the others attaching later. *)
(***************************************************************************)
SessionInit ==
  /\ StoreEmpty
  /\ CoordIdle
  /\ subs = [u \in Subscribers |->
               NewSubscriber(IF u = "u0" THEN "live" ELSE "detached")]
  /\ NoTools

SessionNext ==
  \/ CoordStart
  \/ CoordAssign
  \/ CoordAppend
  \/ CoordBroadcast
  \/ CoordProviderEnd
  \/ CoordAbort
  \/ CoordCancel
  \/ CoordAssignTerminal
  \/ CoordTerminate
  \/ \E u \in Subscribers : SubAttachReplay(u)
  \/ \E u \in Subscribers : SubSwitchLive(u)
  \/ \E u \in Subscribers : SubDetach(u)

SpecSession == SessionInit /\ [][SessionNext]_vars

(***************************************************************************)
(* The document tools.  JavaScript runs a handler to completion between    *)
(* two awaits, so each action below is the code from one await to the next. *)
(***************************************************************************)
Write(type, data) == [type |-> type, data |-> data]

\* inputs the model passes to createDocument and updateDocument
CreateParams == [title : {Str(<<"t">>), Str(<<>>), Undefined},
                 kind : {Str(<<"code">>), Str(<<"sheet">>), Str(<<"bogus">>)}]

UpdateParams == [id : {Str(<<"d0">>), Str(<<"d1">>), Str(<<>>)},
                 description : {Str(<<"x">>), Str(<<>>)}]

\* a tool is invoked by the model while the session streams.  The model follows
\* one tool call of a session; what earlier calls left behind is the document
\* the initial state may hold.
CanCall ==
  /\ cstate = "streaming"
  /\ pc = "idle"

\* the schema, the event type and the validated object of each kind's handler
HandlerSchema(kind) ==
  IF kind = "code" THEN "codeStreamingSchemaV4" ELSE "sheetStreamingSchemaV4"

DeltaType(kind) == IF kind = "code" THEN "data-codeDelta" ELSE "data-sheetDelta"

\* a mutant of findHandler: a kind without a handler gets the code handler
findHandlerOrFirst(kind) == IF kind \in handlers THEN kind ELSE "code"

\* documentHandlersByArtifactKind.find((h) => h.kind === kind): the kind of the
\* handler found, "none" when find returns undefined
findHandler(kind) == IF kind \in handlers THEN kind ELSE "none"

StartHandler(tool, id, kind, title, description) ==
  /\ pc' = "streaming"
  /\ call' = [tool |-> tool, id |-> id, kind |-> kind, title |-> title,
              description |-> description]
  /\ draftContent' = Str(<<>>)
  /\ stream' = "open"
  /\ taken' = <<>>
  /\ validated' = <<>>
  /\ result' = "none"

Throw(error) ==
  /\ pc' = "threw"
  /\ result' = error
  /\ stream' = "none"

\* a mutant of CreateHeader: the title is written before the id
CreateHeaderTitleFirst(id, params) ==
  << Write("data-kind", params.kind), Write("data-title", params.title),
     Write("data-id", Str(<<id>>)), Write("data-clear", Null) >>

\* the four writes that open a created document: kind, id, title, clear
CreateHeader(id, params) ==
  << Write("data-kind", params.kind), Write("data-id", Str(<<id>>)),
     Write("data-title", params.title), Write("data-clear", Null) >>

\* createDocument.execute up to `await documentHandler.onCreateDocument(...)`,
\* with the handler's own start (draftContent = "", streamObject(...))
createDocumentExecute ==
  \E params \in CreateParams, id \in DocIds :
    /\ CanCall
    /\ documents[id] = NoDoc
    /\ IF ~Accepts("createDocumentSchemaV4", params)
         THEN /\ Throw("ZodError")
              /\ UNCHANGED <<sink, call, draftContent, taken, validated>>
         ELSE /\ sink' = sink \o CreateHeader(id, params)
              /\ IF findHandler(params.kind.v[1]) # "none"
                   THEN StartHandler("create", id, findHandler(params.kind.v[1]),
                                     params.title, Null)
                   ELSE /\ Throw("NoHandler")
                        /\ UNCHANGED <<call, draftContent, taken, validated>>
    /\ UNCHANGED <<storeVars, coordVars, subs, adapterVars, otherVars, handlers, documents, savedIn>>

\* updateDocument.execute up to `await documentHandler.onUpdateDocument(...)`
updateDocumentExecute ==
  \E params \in UpdateParams :
    /\ CanCall
    /\ IF ~Accepts("updateDocumentSchemaV4", params)
         THEN /\ Throw("ZodError")
              /\ UNCHANGED <<sink, call, draftContent, taken, validated>>
         ELSE LET document == getDocumentById(params.id.v[1])
              IN IF document = NoDoc
                   THEN /\ pc' = "done"
                        /\ result' = "Document not found"
                        /\ UNCHANGED <<sink, call, draftContent, stream, taken, validated>>
                   ELSE /\ sink' = Append(sink, Write("data-clear", Null))
                        /\ IF findHandler(document.kind) # "none"
                             THEN StartHandler("update", params.id.v[1],
                                               findHandler(document.kind),
                                               document.title, params.description)
                             ELSE /\ Throw("NoHandler")
                                  /\ UNCHANGED <<call, draftContent, taken, validated>>
    /\ UNCHANGED <<storeVars, coordVars, subs, adapterVars, otherVars, handlers, documents, savedIn>>

\* the object the handler validates: { code } or { csv }
FieldObject(kind, x) == IF kind = "code" THEN [code |-> x] ELSE [csv |-> x]

\* a mutant of NextDraft: the increments are concatenated
NextDraftAccumulated(draft, x) == Str(draft.v \o x.v)

\* a mutant of NextDraft: the draft is never replaced
NextDraftKept(draft, x) == draft

\* a mutant of NextDraft: the first validated increment is kept
NextDraftFirst(draft, x) == IF draft.v = <<>> THEN x ELSE draft

\* draftContent = validatedObject.code (validatedObject.csv)
NextDraft(draft, x) == x

\* what fullStream yields: object increments, and parts of the other types
Deltas == [type : {"object"}, value : FieldValues]
            \cup {[type |-> "text-delta", value |-> Undefined]}

\* one iteration of `for await (const delta of fullStream)` in onCreateDocument
\* and onUpdateDocument of the code and sheet handlers
HandlerDelta ==
  \E delta \in Deltas :
    /\ pc = "streaming"
    /\ stream = "open"
    /\ Len(taken) < MaxDeltas
    /\ taken' = Append(taken, delta)
    /\ IF delta.type = "object" /\ Truthy(delta.value)
         THEN IF Accepts(HandlerSchema(call.kind), FieldObject(call.kind, delta.value))
                THEN /\ sink' = Append(sink, Write(DeltaType(call.kind), delta.value))
                     /\ draftContent' = NextDraft(draftContent, delta.value)
                     /\ validated' = Append(validated, delta.value)
                     /\ UNCHANGED <<pc, result, stream>>
                ELSE /\ Throw("ZodError")
                     /\ UNCHANGED <<sink, draftContent, validated>>
         ELSE UNCHANGED <<pc, result, stream, sink, draftContent, validated>>
    /\ UNCHANGED <<storeVars, coordVars, subs, adapterVars, otherVars, handlers, documents, call, savedIn>>

\* the provider fails: fullStream yields a part of type "error", which the loop
\* skips like every part that is not an "object", and then ends
HandlerErrorPart ==
  /\ pc = "streaming"
  /\ stream = "open"
  /\ stream' = "errored"
  /\ UNCHANGED <<storeVars, coordVars, subs, adapterVars, otherVars, handlers, documents, pc, call, draftContent,
                 taken, sink, result, validated, savedIn>>

\* the provider fails and the iteration of fullStream itself throws
HandlerStreamThrows ==
  /\ pc = "streaming"
  /\ stream = "open"
  /\ Throw("ProviderError")
  /\ UNCHANGED <<storeVars, coordVars, subs, adapterVars, otherVars, handlers, documents, call, draftContent,
                 taken, sink, validated, savedIn>>

\* what the handler writes after its loop: the sheet handler's onCreateDocument
\* writes draftContent once more, the others write nothing
TrailingWrites(c, draft) ==
  IF c.tool = "create" /\ c.kind = "sheet"
    THEN << Write("data-sheetDelta", draft) >>
    ELSE << >>

\* fullStream ends, the loop exits and the handler returns draftContent
HandlerReturn ==
  /\ pc = "streaming"
  /\ stream \in {"open", "errored"}
  /\ sink' = sink \o TrailingWrites(call, draftContent)
  /\ stream' = IF stream = "open" THEN "ended" ELSE stream
  /\ pc' = "returned"
  /\ UNCHANGED <<storeVars, coordVars, subs, adapterVars, otherVars, handlers, documents, call, draftContent,
                 taken, result, validated, savedIn>>

\* saveDocument(id, title, kind, content): an update adds a version
saveDocument(id, title, kind, content) ==
  /\ documents' = [documents EXCEPT ![id] =
                     [kind |-> kind, title |-> title, content |-> content,
                      versions |-> @.versions + 1]]
  /\ savedIn' = [savedIn EXCEPT ![id] = [outcome |-> outcome, stream |-> stream]]

\* createDocumentHandler: the content the handler returned is persisted as the
\* document's full body
HandlerSave ==
  /\ pc = "returned"
  /\ saveDocument(call.id, call.title, call.kind, draftContent)
  /\ pc' = "saved"
  /\ UNCHANGED <<storeVars, coordVars, subs, adapterVars, otherVars, handlers, call, draftContent, stream,
                 taken, sink, result, validated>>

\* execute after the await: the finish event and the tool's result
ExecuteFinish ==
  /\ pc = "saved"
  /\ sink' = Append(sink, Write("data-finish", Null))
  /\ result' = "ok"
  /\ pc' = "done"
  /\ UNCHANGED <<storeVars, coordVars, subs, adapterVars, otherVars, handlers, documents, call, draftContent,
                 stream, taken, validated, savedIn>>

(***************************************************************************)
(* SpecTool: one session whose model invokes the document tools; the       *)
(* session may end or be aborted at any point of a tool call.              *)
(***************************************************************************)
ExistingDocs == {[kind |-> k, title |-> Str(<<"t">>), content |-> Str(<<"b">>),
                  versions |-> 1] : k \in {"code", "sheet"}}

ToolInit ==
  /\ StoreEmpty
  /\ CoordIdle
  /\ subs = [u \in Subscribers |-> NewSubscriber("detached")]
  /\ ToolIdle
  /\ AdapterIdle
  /\ OthersIdle
  /\ handlers \in {{"code", "sheet"}, {"code"}}
  /\ \E d \in ExistingDocs \cup {NoDoc} :
       documents = [x \in DocIds |-> IF x = "d0" THEN d ELSE NoDoc]

ToolNext ==
  \/ CoordStart
  \/ createDocumentExecute
  \/ updateDocumentExecute
  \/ HandlerDelta
  \/ HandlerErrorPart
  \/ HandlerStreamThrows
  \/ HandlerReturn
  \/ HandlerSave
  \/ ExecuteFinish
  \/ CoordProviderEnd
  \/ CoordAbort
  \/ CoordCancel
  \/ CoordAssignTerminal
  \/ CoordAppend
  \/ CoordBroadcast
  \/ CoordTerminate

SpecTool == ToolInit /\ [][ToolNext]_vars

(***************************************************************************)
(* SpecRun: one session with its subscribers and a createDocument call.    *)
(* What the handler takes from its stream is left out: the handler starts, *)
(* and returns when its stream ends.  SpecRunFair adds what the scheduling *)
(* guarantees: a step of the coordinator that is due is taken (its timers  *)
(* fire, its store and transport calls return), and so is the step that    *)
(* follows a handler's return.  Nothing obliges the provider to send, to   *)
(* end a stream or to fail, nor a client to attach, to detach or to stop.  *)
(***************************************************************************)
RunNext ==
  \/ CoordStart
  \/ CoordProviderEnd
  \/ CoordAbort
  \/ CoordCancel
  \/ CoordAssignTerminal
  \/ CoordAppend
  \/ CoordBroadcast
  \/ CoordTerminate
  \/ \E u \in Subscribers : SubAttachReplay(u)
  \/ \E u \in Subscribers : SubSwitchLive(u)
  \/ \E u \in Subscribers : SubDetach(u)
  \/ createDocumentExecute
  \/ HandlerReturn
  \/ HandlerSave
  \/ ExecuteFinish

SpecRun == SessionInit /\ [][RunNext]_vars

RunFairness ==
  /\ WF_vars(CoordAbort)
  /\ WF_vars(CoordAssignTerminal)
  /\ WF_vars(CoordAppend)
  /\ WF_vars(CoordBroadcast)
  /\ WF_vars(CoordTerminate)
  /\ WF_vars(HandlerSave)
  /\ WF_vars(ExecuteFinish)

SpecRunFair == SpecRun /\ RunFairness

(***************************************************************************)
(* SpecAdapter: a wrapper is built for one schema and then asked to         *)
(* validate payloads, directly, through a tool and through                  *)
(* testStreamingCompatibility.  A use of the wrapper leaves nothing behind  *)
(* in it, so the model follows one use of each wrapper.                     *)
(***************************************************************************)
Alphabet == {"a", "@", "h", "0"}

RECURSIVE StringsUpTo(_)
StringsUpTo(n) ==
  IF n = 0 THEN {<<>>}
  ELSE StringsUpTo(n - 1) \cup
       {Append(s, c) : s \in {x \in StringsUpTo(n - 1) : Len(x) = n - 1}, c \in Alphabet}

StringChecks == { <<>>, <<Check("min", 1)>>, <<Check("max", 1)>>,
                  <<Check("min", 1), Check("max", 2)>>, <<Check("email", 0)>>,
                  <<Check("url", 0)>>, <<Check("uuid", 0)>>, <<Check("regex", 0)>> }

StringSchemas == {ZString(c) : c \in StringChecks}

LeafSchemas == StringSchemas \cup
               {ZEnum(<< <<"a">>, <<"h">> >>), ZLiteral(<<"a">>), ZNumber, ZNoTypeName}

\* the leaves that stand as members of a union or of a two-key object
FewLeaves == {ZString(<<Check("min", 1)>>), ZEnum(<< <<"a">>, <<"h">> >>),
              ZNumber, ZNoTypeName}

FlatSchemas ==
  {ZOptional(l) : l \in LeafSchemas}
    \cup {ZArray(l, m) : l \in LeafSchemas, m \in {0, 1}}
    \cup {ZUnion(<<l1, l2>>) : l1 \in FewLeaves, l2 \in FewLeaves}
    \cup {ZObject(<<"k">>, <<l>>) : l \in LeafSchemas}
    \cup {ZObject(<<"k", "x">>, <<l1, l2>>) : l1 \in FewLeaves, l2 \in FewLeaves}

Schemas == LeafSchemas \cup FlatSchemas
             \cup {ZObject(<<"k">>, <<c>>) : c \in FlatSchemas}
             \cup {ZDefault(<<"a">>)}

LeafPayloads == {PString(s) : s \in StringsUpTo(MaxLen)} \cup {PNumber, PUndefined}

FewPayloads == {PString(<<>>), PString(<<"a">>), PNumber, PUndefined}

FlatPayloads ==
  {PArray(<<>>)}
    \cup {PArray(<<p>>) : p \in LeafPayloads}
    \cup {PObject(<<"k">>, <<p>>) : p \in LeafPayloads}
    \cup {PObject(<<"k", "x">>, <<p, q>>) : p \in FewPayloads, q \in FewPayloads}
    \cup {PObject(<<"y">>, <<PNumber>>)}

Payloads == LeafPayloads \cup FlatPayloads
              \cup {PObject(<<"k">>, <<c>>) : c \in FlatPayloads}

\* the wrapper is built and has not been used
Fresh == compatSchema.built /\ verdict.op = "create"

AdapterInit ==
  /\ StoreEmpty
  /\ CoordIdle
  /\ subs = [u \in Subscribers |-> NewSubscriber("detached")]
  /\ NoTools

\* const adapterSchema = AISDKZodV4Adapter.createStreamingToolSchema(schema)
AdapterCreate ==
  \E schema \in Schemas :
    /\ ~compatSchema.built
    /\ compatSchema' = createStreamingToolSchema(schema)
    /\ warned' = Warnings(schema)
    /\ verdict' = [op |-> "create", accepted |-> TRUE, logged |-> FALSE]
    /\ UNCHANGED <<storeVars, coordVars, subs, toolVars, otherVars, testData>>

\* adapterSchema.validate(data)
AdapterValidate ==
  \E data \in Payloads :
    /\ Fresh
    /\ testData' = data
    /\ verdict' = [op |-> "validate", accepted |-> validate(compatSchema, data),
                   logged |-> FALSE]
    /\ UNCHANGED <<storeVars, coordVars, subs, toolVars, otherVars, compatSchema, warned>>

\* a call of a tool whose inputSchema is adapterSchema.aiSdkSchema
AdapterToolCall ==
  \E params \in Payloads :
    /\ Fresh
    /\ testData' = params
    /\ verdict' = [op |-> "tool", accepted |-> toolAccepts(compatSchema, params),
                   logged |-> FALSE]
    /\ UNCHANGED <<storeVars, coordVars, subs, toolVars, otherVars, compatSchema, warned>>

\* AISDKZodV4Adapter.testStreamingCompatibility(v4Schema, testData)
AdapterTestCompatibility ==
  \E data \in Payloads :
    /\ Fresh
    /\ testData' = data
    /\ verdict' = [op |-> "test",
                   accepted |-> testStreamingCompatibility(compatSchema.v4Schema, data),
                   logged |-> compatibilityLogged(compatSchema.v4Schema, data)]
    /\ UNCHANGED <<storeVars, coordVars, subs, toolVars, otherVars, compatSchema, warned>>

AdapterNext ==
  \/ AdapterCreate
  \/ AdapterValidate
  \/ AdapterToolCall
  \/ AdapterTestCompatibility

SpecAdapter == AdapterInit /\ [][AdapterNext]_vars

(***************************************************************************)
(* Two coordinator instances of the same session (spec 5, shared-resource  *)
(* policy; spec 7, store contention).  Each instance runs the streaming    *)
(* steps of spec 4.4 with a sequence counter of its own: (1) assign the    *)
(* next sequence number, (2) append if non-transient, (3) broadcast.  The  *)
(* store append and the transport write are suspension points, so the two  *)
(* instances interleave between the steps.  An instance whose append is    *)
(* rejected stops producing.  The coordinator of another session appends   *)
(* to its own log meanwhile.                                               *)
(***************************************************************************)
OtherSession == "S2"

FenceInit ==
  /\ StoreEmpty
  /\ CoordIdle
  /\ subs = [u \in Subscribers |-> NewSubscriber("detached")]
  /\ NoTools

\* step (1) of instance i
FenceAssign(i) ==
  \E k \in StreamKinds :
    /\ ~inst[i].stopped
    /\ inst[i].stage = "idle"
    /\ inst[i].nextSeq <= MaxEvents
    /\ inst' = [inst EXCEPT ![i].inflight = Event(inst[i].nextSeq, k),
                            ![i].stage = "assigned",
                            ![i].nextSeq = @ + 1]
    /\ UNCHANGED <<storeVars, coordVars, subs, toolVars, adapterVars, writers,
                   suggestVars, resizeVars>>

\* step (2) of instance i; a rejected append is fatal to the instance
FenceAppend(i) ==
  /\ ~inst[i].stopped
  /\ inst[i].stage = "assigned"
  /\ IF inst[i].inflight.transient
       THEN /\ inst' = [inst EXCEPT ![i].stage = "appended"]
            /\ UNCHANGED <<log, reply, writers>>
       ELSE /\ append(Sid, inst[i].inflight)
            /\ IF Contiguous(log[Sid], inst[i].inflight)
                 THEN /\ inst' = [inst EXCEPT ![i].stage = "appended"]
                      /\ writers' = Append(writers, i)
                 ELSE /\ inst' = [inst EXCEPT ![i].stage = "idle",
                                              ![i].inflight = NoEvent,
                                              ![i].stopped = TRUE]
                      /\ UNCHANGED writers
  /\ UNCHANGED <<terminal, coordVars, subs, toolVars, adapterVars, suggestVars, resizeVars>>

\* step (3) of instance i
FenceBroadcast(i) ==
  /\ ~inst[i].stopped
  /\ inst[i].stage = "appended"
  /\ inst' = [inst EXCEPT ![i].broadcast = Append(@, inst[i].inflight.seq),
                          ![i].inflight = NoEvent,
                          ![i].stage = "idle"]
  /\ UNCHANGED <<storeVars, coordVars, subs, toolVars, adapterVars, writers,
                 suggestVars, resizeVars>>

\* the coordinator of another session stores its next event
FenceOtherSession ==
  /\ LastSeq(log[OtherSession]) < MaxSeq
  /\ append(OtherSession, Event(LastSeq(log[OtherSession]) + 1, "text"))
  /\ UNCHANGED <<terminal, coordVars, subs, toolVars, adapterVars, otherVars>>

FenceNext ==
  \/ \E i \in Instances : FenceAssign(i)
  \/ \E i \in Instances : FenceAppend(i)
  \/ \E i \in Instances : FenceBroadcast(i)
  \/ FenceOtherSession

SpecFence == FenceInit /\ [][FenceNext]_vars

(***************************************************************************)
(* requestSuggestions, and SpecSuggest: one session whose model invokes    *)
(* one of the three document tools against a document that exists, that    *)
(* exists with an empty body, or that does not exist.                      *)
(***************************************************************************)
\* inputs the model passes to requestSuggestions
SuggestParams == [documentId : {Str(<<"d0">>), Str(<<"d1">>), Str(<<>>)}]

\* what elementStream yields: the elements of the generated array
Elements == {Str(<<"a">>), Str(<<"b">>)}

\* a mutant of MissingOrEmpty: only the row is looked at
MissingOnly(document) == document = NoDoc

\* !document || !document.content
MissingOrEmpty(document) == document = NoDoc \/ ~Truthy(document.content)

\* saveSuggestions({ suggestions }): the call is recorded with the state of the
\* element stream at the time
saveSuggestions(list) ==
  suggestionSaves' = Append(suggestionSaves, [count |-> Len(list), stream |-> stream])

\* requestSuggestions.execute up to the loop over elementStream
requestSuggestionsExecute ==
  \E params \in SuggestParams :
    /\ CanCall
    /\ IF ~Accepts("requestSuggestionsSchemaV4", params)
         THEN /\ Throw("ZodError")
              /\ UNCHANGED <<call, suggestions>>
         ELSE LET document == getDocumentById(params.documentId.v[1])
              IN IF MissingOrEmpty(document)
                   THEN /\ pc' = "done"
                        /\ result' = "Document not found"
                        /\ UNCHANGED <<call, stream, suggestions>>
                   ELSE /\ pc' = "suggesting"
                        /\ call' = [tool |-> "suggest", id |-> params.documentId.v[1],
                                    kind |-> document.kind, title |-> document.title,
                                    description |-> Null]
                        /\ stream' = "open"
                        /\ suggestions' = <<>>
                        /\ result' = "none"
    /\ UNCHANGED <<storeVars, coordVars, subs, adapterVars, fenceVars, resizeVars,
                   handlers, documents, draftContent, taken, sink, validated, savedIn,
                   suggestionSaves>>

\* a mutant of SuggestElement: every element is persisted as it arrives
SuggestElementSaving ==
  \E element \in Elements :
    /\ pc = "suggesting"
    /\ stream = "open"
    /\ Len(suggestions) < MaxDeltas
    /\ sink' = Append(sink, Write("data-suggestion", element))
    /\ suggestions' = Append(suggestions, element)
    /\ saveSuggestions(suggestions')
    /\ UNCHANGED <<storeVars, coordVars, subs, adapterVars, fenceVars, resizeVars,
                   handlers, documents, pc, call, draftContent, stream, taken, result,
                   validated, savedIn>>

\* one iteration of `for await (const element of elementStream)`
SuggestElement ==
  \E element \in Elements :
    /\ pc = "suggesting"
    /\ stream = "open"
    /\ Len(suggestions) < MaxDeltas
    /\ sink' = Append(sink, Write("data-suggestion", element))
    /\ suggestions' = Append(suggestions, element)
    /\ UNCHANGED <<storeVars, coordVars, subs, adapterVars, fenceVars, resizeVars,
                   handlers, documents, pc, call, draftContent, stream, taken, result,
                   validated, savedIn, suggestionSaves>>

\* the provider fails and the iteration of elementStream throws
SuggestStreamThrows ==
  /\ pc = "suggesting"
  /\ stream = "open"
  /\ Throw("ProviderError")
  /\ UNCHANGED <<storeVars, coordVars, subs, adapterVars, otherVars, handlers, documents,
                 call, draftContent, taken, sink, validated, savedIn>>

\* elementStream ends and the loop exits
SuggestStreamEnd ==
  /\ pc = "suggesting"
  /\ stream = "open"
  /\ stream' = "ended"
  /\ pc' = "suggested"
  /\ UNCHANGED <<storeVars, coordVars, subs, adapterVars, otherVars, handlers, documents,
                 call, draftContent, taken, sink, result, validated, savedIn>>

\* if (session.user?.id) await saveSuggestions(...): the session of the call
\* may carry no user id
SuggestSave ==
  \E hasUserId \in BOOLEAN :
    /\ pc = "suggested"
    /\ IF hasUserId THEN saveSuggestions(suggestions) ELSE UNCHANGED suggestionSaves
    /\ pc' = "suggestionsSaved"
    /\ UNCHANGED <<storeVars, coordVars, subs, adapterVars, fenceVars, resizeVars,
                   handlers, documents, call, draftContent, stream, taken, sink, result,
                   validated, savedIn, suggestions>>

\* return { id, title, kind, message }
SuggestReturn ==
  /\ pc = "suggestionsSaved"
  /\ result' = "ok"
  /\ pc' = "done"
  /\ UNCHANGED <<storeVars, coordVars, subs, adapterVars, otherVars, handlers, documents,
                 call, draftContent, stream, taken, sink, validated, savedIn>>

\* a stored document whose body is empty
EmptyDoc == [kind |-> "code", title |-> Str(<<"t">>), content |-> Str(<<>>),
             versions |-> 1]

SuggestInit ==
  /\ StoreEmpty
  /\ CoordIdle
  /\ subs = [u \in Subscribers |-> NewSubscriber("detached")]
  /\ ToolIdle
  /\ AdapterIdle
  /\ OthersIdle
  /\ handlers \in {{"code", "sheet"}, {"code"}}
  /\ \E d \in ExistingDocs \cup {EmptyDoc, NoDoc} :
       documents = [x \in DocIds |-> IF x = "d0" THEN d ELSE NoDoc]

SuggestNext ==
  \/ CoordStart
  \/ createDocumentExecute
  \/ updateDocumentExecute
  \/ HandlerDelta
  \/ HandlerErrorPart
  \/ HandlerStreamThrows
  \/ HandlerReturn
  \/ HandlerSave
  \/ ExecuteFinish
  \/ requestSuggestionsExecute
  \/ SuggestElement
  \/ SuggestStreamThrows
  \/ SuggestStreamEnd
  \/ SuggestSave
  \/ SuggestReturn

SpecSuggest == SuggestInit /\ [][SuggestNext]_vars

(***************************************************************************)
(* useResizable.  React commits the state update of an event handler, and  *)
(* runs the effect of the render it causes, before the next mouse event is  *)
(* dispatched; each action is one mouse event with that commit.  The       *)
(* effect attaches the document listeners when isResizing is true and its   *)
(* cleanup removes them, so an attached resize callback is the one of a     *)
(* render in which isResizing was true.                                     *)
(***************************************************************************)
\* the options the hook is called with: the defaults of MainSidebar and
\* AppSidebar, and an initial width below minWidth
Options == {DefaultOptions, [initialWidth |-> 150, minWidth |-> 200, maxWidth |-> 500]}

\* e.clientX of a mouse event and rect.left of the sidebar
ClientXs == {k * 25 : k \in 0..28}

RectLefts == {0, 50}

Max(a, b) == IF a >= b THEN a ELSE b

Min(a, b) == IF a <= b THEN a ELSE b

\* a mutant of Clamp: only the upper limit is applied
ClampUpperOnly(newWidth, minWidth, maxWidth) == Min(maxWidth, newWidth)

\* Math.max(minWidth, Math.min(maxWidth, newWidth))
Clamp(newWidth, minWidth, maxWidth) == Max(minWidth, Min(maxWidth, newWidth))

ResizeInit ==
  /\ StoreEmpty
  /\ CoordIdle
  /\ subs = [u \in Subscribers |-> NewSubscriber("detached")]
  /\ ToolIdle
  /\ handlers = {"code", "sheet"}
  /\ documents = [d \in DocIds |-> NoDoc]
  /\ AdapterIdle
  /\ FenceIdle
  /\ SuggestIdle
  /\ props \in Options
  /\ width = props.initialWidth
  /\ isResizing = FALSE
  /\ sidebarRef \in BOOLEAN
  /\ listening = FALSE
  /\ lastEvent = "none"

\* startResizing (onMouseDown of the handle): setIsResizing(true); the effect
\* of the next render adds the mousemove and mouseup listeners
startResizing ==
  /\ isResizing' = TRUE
  /\ listening' = TRUE
  /\ lastEvent' = "down"
  /\ UNCHANGED <<storeVars, coordVars, subs, toolVars, adapterVars, fenceVars, suggestVars,
                 props, width, sidebarRef>>

\* a mousemove on the document: resize runs when its listener is attached
resize ==
  \E clientX \in ClientXs, left \in RectLefts :
    /\ lastEvent' = "move"
    /\ IF listening /\ isResizing /\ sidebarRef
         THEN width' = Clamp(clientX - left, props.minWidth, props.maxWidth)
         ELSE UNCHANGED width
    /\ UNCHANGED <<storeVars, coordVars, subs, toolVars, adapterVars, fenceVars, suggestVars,
                   props, isResizing, sidebarRef, listening>>

\* a mouseup on the document: stopResizing runs when its listener is attached;
\* the cleanup of the effect removes the listeners
stopResizing ==
  /\ lastEvent' = "up"
  /\ IF listening
       THEN isResizing' = FALSE /\ listening' = FALSE
       ELSE UNCHANGED <<isResizing, listening>>
  /\ UNCHANGED <<storeVars, coordVars, subs, toolVars, adapterVars, fenceVars, suggestVars,
                 props, width, sidebarRef>>

ResizeNext ==
  \/ startResizing
  \/ resize
  \/ stopResizing

SpecResize == ResizeInit /\ [][ResizeNext]_vars

(***************************************************************************)
(* Claims about the Resumable Stream Store (checked under SpecStore).      *)
(***************************************************************************)
\* C1: in every reachable state and for every session, the stored events carry
\* exactly the sequence numbers 1..n, in order: they start at 1 and have no gap
\* and no duplicate, whatever appends (accepted or rejected) came before.
C1_SequenceContiguousFromOne ==
  \A s \in Sessions : \A i \in 1..Len(log[s]) : log[s][i].seq = i

\* a session holds two events and an append has just been rejected
C1_Witness ==
  \E s \in Sessions : Len(log[s]) >= 2 /\ reply.op = "append" /\ reply.status = "rejected"

\* C2: an append whose event is not numbered exactly one above the last stored
\* sequence number of the session returns a rejection and leaves the log as it
\* was; every other append returns "ok" and has stored the event at the end.
C2_AppendRejectsOutOfSequence ==
  [][reply'.op = "append" =>
       LET s == reply'.session
           e == reply'.event
       IN  IF e.seq = LastSeq(log[s]) + 1
             THEN reply'.status = "ok" /\ log' = [log EXCEPT ![s] = Append(@, e)]
             ELSE reply'.status = "rejected" /\ log' = log]_vars

\* an append was rejected for a gap above a non-empty log
C2_Witness ==
  /\ reply.op = "append"
  /\ reply.status = "rejected"
  /\ log[reply.session] # <<>>
  /\ reply.event.seq > LastSeq(log[reply.session]) + 1

(***************************************************************************)
(* Claims about the coordinator and its subscribers (under SpecSession).   *)
(***************************************************************************)
StrictlyIncreasing(evs) ==
  \A i, j \in 1..Len(evs) : i < j => evs[i].seq < evs[j].seq

Quiescent == stage = "idle"

\* C3: whenever no event is between its append and its broadcast, a subscriber
\* that attached once (replay, then live) has received the same event sequence
\* as subscriber u0, which has been attached from the very start.
C3_LateSubscriberSeesSameSequence ==
  \A u \in Subscribers :
    ( /\ Quiescent
      /\ subs[u].mode = "live" /\ ~subs[u].everDetached
      /\ subs["u0"].mode = "live" /\ ~subs["u0"].everDetached )
    => subs[u].received = subs["u0"].received

\* C4: every subscriber has received the events of the session in strictly
\* increasing sequence-number order.
C4_DeliveryStrictlyIncreasing ==
  \A u \in Subscribers : StrictlyIncreasing(subs[u].received)

NonTransient(evs) == SelectSeq(evs, LAMBDA e : ~e.transient)

\* C5: with the owning coordinator as the only writer, no append is rejected,
\* and once an emitted event is past its append step the log of the session
\* holds exactly the non-transient events emitted so far, in emission order
\* and with the sequence numbers the coordinator assigned.
C5_LogIsNonTransientEmitted ==
  /\ reply.op = "append" => reply.status = "ok"
  /\ (Active /\ stage # "assigned") => log[Sid] = NonTransient(emitted)

(***************************************************************************)
(* Claims about the document tools and the handlers (under SpecTool).      *)
(***************************************************************************)
DeltaTypes == {"data-codeDelta", "data-sheetDelta"}

ContentEvents(s) == SelectSeq(s, LAMBDA w : w.type \in DeltaTypes)

\* an object increment that the handler's schema accepts
ValidIncrement(kind, delta) ==
  delta.type = "object" /\ Accepts(HandlerSchema(kind), FieldObject(kind, delta.value))

InHandler == call.tool # "none"

\* C6: when the first increment of a handler's stream is an object increment
\* its schema rejects and all later ones are valid, the handler is not ended by
\* a validation error and the sink holds exactly one content event for each
\* of the valid increments.
C6_MalformedIncrementDropped ==
  ( /\ InHandler
    /\ taken # <<>>
    /\ taken[1].type = "object"
    /\ ~ValidIncrement(call.kind, taken[1])
    /\ \A i \in 2..Len(taken) : ValidIncrement(call.kind, taken[i]) )
  => /\ result # "ZodError"
     /\ Len(ContentEvents(sink)) = Len(taken) - 1

\* a code document was created from a stream of exactly three valid content
\* increments that then ended, and has been persisted
ThreeChunks ==
  /\ call.tool = "create"
  /\ call.kind = "code"
  /\ pc \in {"saved", "done"}
  /\ stream = "ended"
  /\ Len(taken) = 3
  /\ \A i \in 1..3 : ValidIncrement("code", taken[i])

\* C7 as stated: after a create-code-document call whose stream delivered the
\* content increments c1, c2, c3 and finished, the persisted content is
\* c1 ++ c2 ++ c3.
C7_PersistedIsConcatenation ==
  ThreeChunks =>
    documents[call.id].content =
      Str(taken[1].value.v \o taken[2].value.v \o taken[3].value.v)

\* C7 as amended: after a create-code-document call whose stream delivered the
\* content increments c1, c2, c3 and finished, the persisted content is c3,
\* the last increment.
C7_PersistedIsLastOfThree ==
  ThreeChunks => documents[call.id].content = taken[3].value

\* three increments, the first and the last different, and the last persisted
C7_Witness ==
  /\ ThreeChunks
  /\ taken[1].value # taken[3].value
  /\ documents[call.id].content = taken[3].value

LastValidated == IF validated = <<>> THEN Str(<<>>) ELSE validated[Len(validated)]

\* C8: the content a code or sheet handler returns, and the content persisted
\* for the document, is the payload of the last increment the handler
\* validated, and the empty string when it validated none.
C8_ContentIsLastValidatedChunk ==
  InHandler =>
    /\ pc \in {"returned", "saved", "done"} => draftContent = LastValidated
    /\ pc \in {"saved", "done"} => documents[call.id].content = LastValidated

\* the S1 scenario: two increments, each the content so far, the second persisted
C8_Witness ==
  /\ InHandler
  /\ pc = "done"
  /\ validated = << Str(<<"a">>), Str(<<"a", "b">>) >>
  /\ documents[call.id].content = Str(<<"a", "b">>)

\* C9: a document row is written only by a handler run whose stream ended
\* normally in a session that was not aborted while the handler ran.
C9_NoDocumentAfterAbort ==
  \A d \in DocIds :
    savedIn[d] # NotSaved =>
      savedIn[d].outcome \notin {"error", "cancel", "fenced"} /\ savedIn[d].stream = "ended"

\* C10: every content event in the sink carries a payload its handler's schema
\* accepts, the title and kind written for a created document are accepted by
\* the tool's input schema, and a tool call whose input fails validation ends
\* in an error and has written nothing to the sink.
C10_OnlyValidatedForwarded ==
  /\ \A i \in 1..Len(sink) :
       /\ sink[i].type = "data-codeDelta" =>
            Accepts("codeStreamingSchemaV4", [code |-> sink[i].data])
       /\ sink[i].type = "data-sheetDelta" =>
            Accepts("sheetStreamingSchemaV4", [csv |-> sink[i].data])
       /\ sink[i].type = "data-title" => StringMin(sink[i].data, 1)
       /\ sink[i].type = "data-kind" => EnumOf(sink[i].data, artifactKinds)
  /\ (result = "ZodError" /\ ~InHandler) => (pc = "threw" /\ sink = <<>>)

(***************************************************************************)
(* Claims about the Schema Validation Adapter (under SpecAdapter).          *)
(***************************************************************************)
\* whether the schema the wrapper was built from accepts the payload
OriginalAccepts == Parses(compatSchema.v4Schema, testData)

\* whether the translated schema accepts it
TranslatedAccepts == Parses(compatSchema.aiSdkSchema, testData)

Composite(schema) ==
  schema.typeName \in {"ZodObject", "ZodArray", "ZodUnion", "ZodOptional"}

\* the nodes of a tree the translation has no case for, those whose _def has
\* no typeName among them
RECURSIVE Unrecognized(_)
Unrecognized(schema) ==
  IF Composite(schema)
    THEN SumOver([i \in 1..Len(schema.children) |-> Unrecognized(schema.children[i])],
                 Len(schema.children))
  ELSE IF schema.typeName \in RecognizedKinds THEN 0 ELSE 1

\* node for node: a recognized node keeps its kind and its children are
\* translated in turn, any other node has become an accept-anything node
RECURSIVE KindsKept(_, _)
KindsKept(schema, translated) ==
  IF schema.typeName \in RecognizedKinds
    THEN /\ translated.typeName = schema.typeName
         /\ Len(translated.children) = Len(schema.children)
         /\ \A i \in 1..Len(schema.children) :
              KindsKept(schema.children[i], translated.children[i])
    ELSE translated = ZAny

\* C12: building a wrapper throws for no schema tree; every node of the tree
\* that is not of a recognized kind (a node without a typeName included) has
\* become an accept-anything node and has raised one diagnostic, and the
\* recognized nodes around it are translated as usual.
C12_UnrecognizedFallsBackWithDiagnostic ==
  compatSchema.built =>
    /\ KindsKept(compatSchema.v4Schema, compatSchema.aiSdkSchema)
    /\ warned = Unrecognized(compatSchema.v4Schema)

\* a tree of recognized kinds whose strings carry only the five refinements
\* the translation knows
RECURSIVE OnlyRecognized(_)
OnlyRecognized(schema) ==
  /\ schema.typeName \in RecognizedKinds
  /\ \A i \in 1..Len(schema.checks) : schema.checks[i].kind \in RecognizedChecks
  /\ \A i \in 1..Len(schema.children) : OnlyRecognized(schema.children[i])

\* no array of the tree has a length constraint
RECURSIVE NoArrayLength(_)
NoArrayLength(schema) ==
  /\ schema.minLength = 0
  /\ \A i \in 1..Len(schema.children) : NoArrayLength(schema.children[i])

\* the translated schema is the original node for node, accepts the payload at
\* hand exactly when the original does, and testStreamingCompatibility says
\* so for every payload the original accepts
TranslationEquivalent ==
  /\ compatSchema.aiSdkSchema = compatSchema.v4Schema
  /\ verdict.op \in {"validate", "tool", "test"} =>
       (TranslatedAccepts <=> OriginalAccepts)
  /\ verdict.op = "test" => (verdict.accepted <=> OriginalAccepts)

RequestedKinds ==
  {sink[i].data.v[1] : i \in {j \in 1..Len(sink) : sink[j].type = "data-kind"}}
    \cup {documents[d].kind : d \in {x \in DocIds : /\ documents[x] # NoDoc
                                                      /\ sink # <<>>
                                                      /\ sink[1].type = "data-clear"}}

\* C14: a handler runs only for the kind the call named and only when that very
\* kind is registered; a call whose kind has no handler ends in an error,
\* without any handler having run and without a finish event in the sink.
C14_UnmatchedKindIsFatal ==
  /\ InHandler => (call.kind \in handlers /\ call.kind \in RequestedKinds)
  /\ (\E k \in RequestedKinds : k \notin handlers) =>
       /\ pc = "threw"
       /\ result = "NoHandler"
       /\ ~InHandler
       /\ taken = <<>>
       /\ \A i \in 1..Len(sink) : sink[i].type \notin DeltaTypes \cup {"data-finish"}

\* a sheet document was asked for while only the code handler is registered
C14_Witness ==
  /\ handlers = {"code"}
  /\ result = "NoHandler"
  /\ \E i \in 1..Len(sink) : sink[i] = Write("data-kind", Str(<<"sheet">>))

(***************************************************************************)
(* Claims about the session state machine (spec 4.4, 5).                   *)
(***************************************************************************)
AllowedMoves == { <<"initializing", "streaming">>, <<"streaming", "finalizing">>,
                  <<"finalizing", "completed">>, <<"finalizing", "aborted">> }

\* C15: every change of the session's state is one step of
\* initializing -> streaming -> finalizing -> {completed, aborted}; a session
\* that is completed or aborted stays as it is, whatever happens afterwards.
C15_StateMachineOnlyForward ==
  [][cstate' # cstate => <<cstate, cstate'>> \in AllowedMoves]_vars

\* a session ended by a rejected append went through finalizing to aborted,
\* and a subscriber has detached since
C15_Witness ==
  /\ cstate = "aborted"
  /\ outcome = "fenced"
  /\ terminal[Sid] = "aborted"
  /\ \E u \in Subscribers : subs[u].everDetached

FinishEmitted == \E i \in 1..Len(emitted) : emitted[i].kind = "finish"

\* C16: a session is completed, and its finish event emitted, only after the
\* provider has signalled the end of the stream and with no handler sub-task
\* still running; the tool itself writes its finish event only after its
\* handler has returned.
C16_CompletedOnlyAfterHandlers ==
  /\ (cstate = "completed" \/ terminal[Sid] = "completed") =>
       (outcome = "finish" /\ ~HandlerRunning)
  /\ FinishEmitted => (outcome \in {"finish", "cancel"} /\ ~HandlerRunning)
  /\ (\E i \in 1..Len(sink) : sink[i].type = "data-finish") => pc = "done"

\* the provider ended while a handler was running; the session completed after
\* the handler's document was saved
C16_Witness ==
  /\ cstate = "completed"
  /\ pc = "done"
  /\ InHandler
  /\ savedIn[call.id].outcome = "finish"

\* C17: a session that is streaming reaches completed or aborted.
C17_EveryStreamingSessionTerminates ==
  (cstate = "streaming") ~> (cstate \in {"completed", "aborted"})

\* C18: once a client's stop request has cancelled the provider call, the
\* session is never completed: it finalizes and is persisted as aborted.
C18_CancelEndsAborted ==
  outcome = "cancel" =>
    /\ cstate \in {"finalizing", "aborted"}
    /\ terminal[Sid] \in {"active", "aborted"}

\* a cancelled session has emitted its finish event and is persisted as aborted
C18_Witness ==
  /\ outcome = "cancel"
  /\ FinishEmitted
  /\ cstate = "aborted"
  /\ terminal[Sid] = "aborted"

(***************************************************************************)
(* Claims about resumption and detaching.                                  *)
(***************************************************************************)
\* what readFrom returns for every session and every afterSequence is the same
\* before and after the step
ReadsUnchanged ==
  \A s \in Sessions : \A after \in 0..MaxSeq :
    SeqAfter(log'[s], after) = SeqAfter(log[s], after)

C20_DetachChangesNothingElse ==
  [][\A u \in Subscribers :
       (subs[u].mode \in {"replayed", "live"} /\ subs'[u].mode = "detached") =>
         /\ UNCHANGED <<storeVars, coordVars, toolVars>>
         /\ subs'[u].received = subs[u].received
         /\ \A v \in Subscribers \ {u} : subs'[v] = subs[v]]_vars

\* a subscriber is detached while a handler runs in the streaming session and
\* the other subscriber is attached
C20_Witness ==
  /\ cstate = "streaming"
  /\ pc = "streaming"
  /\ subs["u1"].mode = "detached"
  /\ subs["u1"].everDetached
  /\ subs["u0"].mode = "live"

(***************************************************************************)
(* Claims about duplicate coordinator instances (checked under SpecFence). *)
(***************************************************************************)
\* every stored event of the session was written by the same instance
SingleWriter == \A m, n \in 1..Len(writers) : writers[m] = writers[n]

\* a stopped instance appends and broadcasts nothing further
StoppedStaysSilent ==
  \A i \in Instances :
    inst[i].stopped =>
      /\ inst'[i] = inst[i]
      /\ Len(writers') > Len(writers) => writers'[Len(writers')] # i

\* C21: when two coordinator instances of one session interleave their
\* appends, every event in the session's log was written by a single instance,
\* and an instance whose append was rejected appends and broadcasts nothing
\* further, while the other session's log keeps growing unaffected by it.
C21_ContiguityFencesDuplicates ==
  /\ [](SingleWriter /\ Len(writers) = Len(log[Sid]))
  /\ [][StoppedStaysSilent]_vars
  /\ [][\A i \in Instances : inst'[i].stopped /\ ~inst[i].stopped
          => log'[OtherSession] = log[OtherSession]]_vars

(***************************************************************************)
(* Claims about persistence and missing documents (checked under           *)
(* SpecSuggest).                                                           *)
(***************************************************************************)
\* C22: saveDocument and saveSuggestions are called only at finalization
\* boundaries: a document is never saved while the generation stream of its
\* handler is still open, and saveSuggestions is called at most once per call of
\* requestSuggestions, only after the element stream has ended.
C22_SavesOnlyAfterStreamEnd ==
  /\ \A d \in DocIds : savedIn[d] # NotSaved => savedIn[d].stream \in {"ended", "errored"}
  /\ Len(suggestionSaves) <= 1
  /\ \A n \in 1..Len(suggestionSaves) :
       /\ suggestionSaves[n].stream = "ended"
       /\ suggestionSaves[n].count = Len(suggestions)
  /\ stream = "open" => suggestionSaves = <<>>

\* two suggestions were streamed and saved together after the stream ended
C22_Witness ==
  /\ call.tool = "suggest"
  /\ pc = "done"
  /\ Len(suggestions) >= 2
  /\ Len(suggestionSaves) = 1
  /\ suggestionSaves[1].count = Len(suggestions)

\* the tool call that is running was started against a document that exists
\* and, for requestSuggestions, has a body
StartedOnDocument ==
  call.tool \in {"update", "suggest"} =>
    /\ documents[call.id] # NoDoc
    /\ call.tool = "suggest" => Truthy(documents[call.id].content)

\* C26: a call of updateDocument with an unknown id, or of requestSuggestions
\* with an unknown id or with a document whose content is empty, returns
\* 'Document not found' and does nothing else: nothing is written to the sink,
\* no handler or generation stream is started and nothing is persisted; a
\* handler or generation stream is only ever started for a document that exists.
C26_NotFoundHasNoEffect ==
  /\ [][result' = "Document not found" /\ result # "Document not found" =>
          /\ pc = "idle" /\ pc' = "done"
          /\ UNCHANGED <<sink, stream, call, documents, savedIn, suggestions,
                         suggestionSaves, taken, draftContent, validated, storeVars>>]_vars
  /\ [](result = "Document not found" =>
          /\ sink = <<>> /\ stream = "none" /\ call = NoCall
          /\ suggestionSaves = <<>>
          /\ \A d \in DocIds : savedIn[d] = NotSaved)
  /\ []StartedOnDocument

\* a call returned 'Document not found' while the only stored document has an
\* empty body
C26_Witness ==
  /\ result = "Document not found"
  /\ pc = "done"
  /\ documents["d0"] = EmptyDoc

(***************************************************************************)
(* Further claims about the handlers and the tools (under SpecTool).       *)
(***************************************************************************)
\* C23: a content event is written for a field only when the field is present
\* in the increment and its value differs from the previous increment's: no two
\* consecutive content events of a handler carry the same value.
C23_ContentEventOnlyOnChange ==
  LET ce == ContentEvents(sink)
  IN  /\ \A i \in 1..Len(ce) : ce[i].data.t # "undefined"
      /\ \A i \in 1..(Len(ce) - 1) : ce[i].data # ce[i + 1].data

(***************************************************************************)
(* Further claims about the session (under SpecSession).                   *)
(***************************************************************************)
\* C24: isTerminal(sessionId) is true exactly when the session has a terminal
\* record and false while the session is active; once the session has
\* finalized, isTerminal is true and the store holds exactly the events the
\* session emitted, in order.
C24_TerminalAndStoreHoldsEmitted ==
  /\ isTerminal(Sid) <=> terminal[Sid] \in {"completed", "aborted"}
  /\ Active => ~isTerminal(Sid)
  /\ cstate \in {"completed", "aborted"} =>
       /\ isTerminal(Sid)
       /\ log[Sid] = emitted

(***************************************************************************)
(* Further claims about the tools and the handlers (under SpecTool).       *)
(***************************************************************************)
FinishCount(s) == Len(SelectSeq(s, LAMBDA w : w.type = "data-finish"))

\* the sink of a createDocument call whose handler was started: kind, id,
\* title, clear, then only content deltas of the handler, then at most a finish
CreateOrder ==
  /\ Len(sink) >= 4
  /\ sink[1] = Write("data-kind", Str(<<call.kind>>))
  /\ sink[2] = Write("data-id", Str(<<call.id>>))
  /\ sink[3] = Write("data-title", call.title)
  /\ sink[4] = Write("data-clear", Null)
  /\ \A i \in 5..Len(sink) :
       \/ sink[i].type = DeltaType(call.kind)
       \/ i = Len(sink) /\ sink[i].type = "data-finish"

\* C25: every createDocument call writes its events in the order kind, id,
\* title, clear, then the handler's content deltas, then finish; the finish
\* event is written exactly once by a successful call, only after the handler
\* has returned, and never by a call whose handler throws.
C25_CreateWritesInFixedOrder ==
  /\ call.tool = "create" => CreateOrder
  /\ FinishCount(sink) <= 1
  /\ FinishCount(sink) = 1 <=> pc = "done" /\ result = "ok"
  /\ pc = "threw" => FinishCount(sink) = 0

\* a created document with at least two content deltas between clear and finish
C25_Witness ==
  /\ call.tool = "create"
  /\ pc = "done"
  /\ Len(sink) >= 7
  /\ sink[Len(sink)].type = "data-finish"

\* the payload of the last content-delta event in the sink
LastContentEvent == ContentEvents(sink)[Len(ContentEvents(sink))].data

\* C28: for the code and sheet handlers, on create and on update, whenever the
\* handler wrote at least one content-delta event, the content it returns is the
\* payload of the last content-delta event it wrote.
C28_ReturnedIsLastDeltaWritten ==
  ( /\ InHandler
    /\ pc \in {"returned", "saved", "done"}
    /\ ContentEvents(sink) # <<>> )
  => draftContent = LastContentEvent

\* a handler returned after writing two content deltas with different payloads
C28_Witness ==
  /\ InHandler
  /\ pc = "returned"
  /\ Len(ContentEvents(sink)) >= 2
  /\ ContentEvents(sink)[1].data # LastContentEvent
  /\ draftContent = LastContentEvent

TerminalCount ==
  Len(SelectSeq(emitted, LAMBDA e : e.kind \in {"finish", "error"}))

\* a session that has ended emitted one terminal event, as its last event
OneTerminalEvent ==
  /\ TerminalCount <= 1
  /\ cstate \in {"completed", "aborted"} => TerminalCount = 1
  /\ TerminalEmitted => emitted[Len(emitted)].kind \in {"finish", "error"}

\* once the terminal event is emitted, no event is assigned a sequence number,
\* only the terminal event itself is stored and broadcast to the attached
\* subscribers, and no handler writes to the data stream
NothingAfterTerminal ==
  TerminalEmitted =>
    /\ emitted' = emitted
    /\ sink' = sink
    /\ log'[Sid] # log[Sid] => log'[Sid] = Append(log[Sid], emitted[Len(emitted)])
    /\ \A u \in Subscribers :
         (subs[u].mode = "live" /\ subs'[u].received # subs[u].received) =>
           subs'[u].received = Append(subs[u].received, emitted[Len(emitted)])

\* C27: each session emits exactly one terminal event (finish or error), and
\* after it no event is assigned a sequence number, stored or broadcast, the
\* output of handler sub-tasks still running at the abort included.
C27_OneTerminalEventNothingAfter ==
  /\ []OneTerminalEvent
  /\ [][NothingAfterTerminal]_vars

(***************************************************************************)
(* Further claims about the Schema Validation Adapter (under SpecAdapter).  *)
(***************************************************************************)
\* the two libraries' results for the payload at hand have the same JSON text
SameResults ==
  ParseOutput(compatSchema.v4Schema, testData) = ParseOutput(compatSchema.aiSdkSchema, testData)

\* C29: testStreamingCompatibility never throws: it returns a boolean, true
\* exactly when the original schema's validation and the translated schema's
\* parse both succeed and give equal results, and false, after logging, whenever
\* either of the two raises.
C29_CompatibilityTestNeverThrows ==
  verdict.op = "test" =>
    /\ verdict.accepted \in BOOLEAN
    /\ verdict.accepted <=> (OriginalAccepts /\ TranslatedAccepts /\ SameResults)
    /\ (~OriginalAccepts \/ ~TranslatedAccepts) => (~verdict.accepted /\ verdict.logged)
    /\ verdict.logged => (~OriginalAccepts \/ ~TranslatedAccepts)

\* the test returned false after logging: the original schema rejected the
\* payload that the translated schema accepts
C29_Witness ==
  /\ verdict.op = "test"
  /\ ~verdict.accepted
  /\ verdict.logged
  /\ ~OriginalAccepts
  /\ TranslatedAccepts

(***************************************************************************)
(* Claims about useResizable (under SpecResize).                           *)
(***************************************************************************)
\* C30: after any sequence of mouse-down, mouse-move and mouse-up events the
\* width is the initial width or lies within [minWidth, maxWidth]; the width
\* changes only in a mouse-move that happens while isResizing is true, and a
\* mouse-move while not resizing leaves it unchanged.
C30_WidthStaysInRange ==
  /\ [](\/ width = props.initialWidth
        \/ props.minWidth <= width /\ width <= props.maxWidth)
  /\ [][width' # width => (isResizing /\ lastEvent' = "move")]_vars
  /\ [][(lastEvent' = "move" /\ ~isResizing) => width' = width]_vars

\* a drag beyond the upper limit left the width at maxWidth
C30_Witness ==
  /\ lastEvent = "move"
  /\ isResizing
  /\ width = props.maxWidth
  /\ width # props.initialWidth

====
